---------------------------- MODULE Spec2Model ----------------------------
(***************************************************************************)
(* Model of rename_project_references.py (src/main.py): process_directory  *)
(* walks a directory tree with Path.rglob('*') and calls                   *)
(* update_file_content on every regular file, which reads the file as      *)
(* text, replaces old_str by new_str with str.replace and writes the text  *)
(* back when old_str occurs in it.                                         *)
(*                                                                         *)
(* A file's content is a sequence of bytes.  "a" and "b" stand for ASCII   *)
(* letters, "CR" and "LF" for 0x0D and 0x0A, and "XX" for a byte that is   *)
(* not valid UTF-8 (such as 0xFF).  Text is a sequence of characters with  *)
(* the same names.  The tree holds no symbolic or hard links: every entry  *)
(* names its own file.                                                     *)
(***************************************************************************)
EXTENDS Integers, Sequences, FiniteSets, TLC

\* ---- bounds of the model ------------------------------------------------
MaxEntries == 3   \* entries below the root in the tree of Init
MaxLen == 3       \* bytes of the file in InitText
MaxOld == 2       \* characters of old_str in InitText
MaxNew == 1       \* characters of new_str in InitText

TextChars == {"a", "b"}
InitBytes == {"a", "b", "CR", "LF", "XX"}
EntryKinds == {"file", "dir", "other"}
RootKinds == {"dir", "file", "absent"}
None == "None"

BSeq(S, k) == UNION {[1..m -> S] : m \in 0..k}

\* In the tree of Init a file is empty, one letter or one undecodable byte,
\* a pattern empty or one letter; InitText has the longer ones.
TreeContents == {<<>>} \cup {<<b>> : b \in InitBytes \ {"CR", "LF"}}
TreePatterns == {<<>>} \cup {<<c>> : c \in TextChars}

VARIABLES
    rootKind,        \* what target_dir names: a directory, a file, nothing
    parent,          \* parent[i]: the directory holding entry i (0: the root)
    kind,            \* kind[i]: regular file, directory, other (socket, ...)
    fs,              \* fs[i]: the bytes of entry i (empty unless a file)
    fs0,             \* the bytes of every entry when the current run began
    fsInit,          \* the bytes of every entry before the first run
    written,         \* entries this run opened for writing
    old_str, new_str,
    run,             \* "first" or "second" invocation of the script
    pc,              \* position in process_directory
    todo,            \* what rglob('*') has still to yield
    files_processed, files_updated,
    ret,             \* what the last update_file_content call returned
    diag,            \* what the last update_file_content call printed
    checked,         \* the paths printed by "Checking: ..." in this run
    updated,         \* the files this run counted in files_updated
    rootError,       \* the "ERROR: Target directory" line was printed
    summary          \* the printed summary <<checked, updated>>, or None

vars == <<rootKind, parent, kind, fs, fs0, fsInit, written, old_str, new_str,
          run, pc, todo, files_processed, files_updated, ret, diag, checked,
          updated, rootError, summary>>

tree == <<rootKind, parent, kind, fsInit>>
config == <<old_str, new_str>>

Entries == 1..Len(kind)
Files == {i \in Entries : kind[i] = "file"}

\* ---- text I/O -------------------------------------------------------------

\* FILE_ENCODING = "utf-8": decoding fails on a byte that is not UTF-8.
Utf8Valid(bytes) == \A i \in 1..Len(bytes) : bytes[i] # "XX"

\* Text-mode reading (newline=None): "\r\n" and "\r" are read as "\n".
RECURSIVE UniversalNewlines(_)
UniversalNewlines(s) ==
    IF s = <<>> THEN <<>>
    ELSE IF Head(s) = "CR"
         THEN IF Len(s) >= 2 /\ s[2] = "LF"
              THEN <<"LF">> \o UniversalNewlines(SubSeq(s, 3, Len(s)))
              ELSE <<"LF">> \o UniversalNewlines(Tail(s))
         ELSE <<Head(s)>> \o UniversalNewlines(Tail(s))

\* Path.read_text(encoding) of a file whose bytes decode.
read_text(bytes) == UniversalNewlines(bytes)

\* os.linesep on a POSIX system, where text-mode writing leaves "\n" alone.
linesep == <<"LF">>

\* Path.write_text(text, encoding): "\n" is written as os.linesep.
RECURSIVE write_text(_)
write_text(s) ==
    IF s = <<>> THEN <<>>
    ELSE (IF Head(s) = "LF" THEN linesep ELSE <<Head(s)>>) \o write_text(Tail(s))

\* ---- str operations ---------------------------------------------------------

\* old_str in content
Contains(content, sub) ==
    \E i \in 0..(Len(content) - Len(sub)) :
        SubSeq(content, i + 1, i + Len(sub)) = sub

\* content.replace("", new): new before every character and at the end.
RECURSIVE Interleave(_, _)
Interleave(s, new) ==
    IF s = <<>> THEN new
    ELSE new \o <<Head(s)>> \o Interleave(Tail(s), new)

\* Mutant of Replace: only the first occurrence is replaced (count=1).
RECURSIVE Replace_FirstOnly(_, _, _)
Replace_FirstOnly(s, old, new) ==
    IF old = <<>> THEN Interleave(s, new)
    ELSE IF Len(s) < Len(old) THEN s
    ELSE IF SubSeq(s, 1, Len(old)) = old
         THEN new \o SubSeq(s, Len(old) + 1, Len(s))
         ELSE <<Head(s)>> \o Replace_FirstOnly(Tail(s), old, new)

\* content.replace(old, new)
RECURSIVE Replace(_, _, _)
Replace(s, old, new) ==
    IF old = <<>> THEN Interleave(s, new)
    ELSE IF Len(s) < Len(old) THEN s
    ELSE IF SubSeq(s, 1, Len(old)) = old
         THEN new \o Replace(SubSeq(s, Len(old) + 1, Len(s)), old, new)
         ELSE <<Head(s)>> \o Replace(Tail(s), old, new)

\* ---- traversal --------------------------------------------------------------

\* The entries of directory d, as os.scandir lists them (here: ascending).
RECURSIVE ChildrenFrom(_, _)
ChildrenFrom(d, i) ==
    IF i > Len(kind) THEN <<>>
    ELSE (IF parent[i] = d THEN <<i>> ELSE <<>>) \o ChildrenFrom(d, i + 1)

Children(d) == ChildrenFrom(d, 1)

IsDir(i) == kind[i] = "dir"

\* Mutant of Walk: the walk does not descend into subdirectories.
Walk_Shallow(d) == <<d>>

\* The "**" part of rglob: a directory, then each of its subdirectories.
RECURSIVE Walk(_)
RECURSIVE WalkAll(_)
Walk(d) == <<d>> \o WalkAll(SelectSeq(Children(d), IsDir))
WalkAll(ds) ==
    IF ds = <<>> THEN <<>> ELSE Walk(Head(ds)) \o WalkAll(Tail(ds))

RECURSIVE ListAll(_)
ListAll(ds) ==
    IF ds = <<>> THEN <<>> ELSE Children(Head(ds)) \o ListAll(Tail(ds))

\* root_path.rglob('*'): the entries of every directory of the walk.
rglob == ListAll(Walk(0))

\* item_path.is_file()
is_file(i) == kind[i] = "file"

\* ---- initial states ---------------------------------------------------------

WellFormed(n, k, p) ==
    \A i \in 1..n :
        IF p[i] = 0 THEN TRUE ELSE p[i] < i /\ k[p[i]] = "dir"

InitWith(maxEntries, contents, olds, news) ==
    /\ rootKind \in RootKinds
    /\ \E n \in 0..(IF rootKind = "dir" THEN maxEntries ELSE 0) :
         /\ kind \in [1..n -> EntryKinds]
         /\ parent \in [1..n -> 0..(maxEntries - 1)]
         /\ WellFormed(n, kind, parent)
         /\ fs \in [1..n -> contents]
         /\ \A i \in 1..n : kind[i] # "file" => fs[i] = <<>>
    /\ fs0 = fs
    /\ fsInit = fs
    /\ written = {}
    /\ old_str \in olds
    /\ new_str \in news
    /\ run = "first"
    /\ pc = "start"
    /\ todo = <<>>
    /\ files_processed = None
    /\ files_updated = None
    /\ ret = FALSE
    /\ diag = <<>>
    /\ checked = <<>>
    /\ updated = {}
    /\ rootError = FALSE
    /\ summary = None

\* A tree of entries with short contents.
Init ==
    InitWith(MaxEntries, TreeContents, TreePatterns, TreePatterns)

\* A root with at most one entry, with longer contents and patterns.
InitText ==
    InitWith(1, BSeq(InitBytes, MaxLen),
             BSeq(TextChars, MaxOld), BSeq(TextChars, MaxNew))

\* ---- process_directory ------------------------------------------------------

\* Lines 80-83: the root is no directory.
StartInvalid ==
    /\ pc = "start"
    /\ rootKind # "dir"
    /\ rootError' = TRUE
    /\ pc' = "aborted"
    /\ UNCHANGED <<tree, config, fs, fs0, written, run, todo, files_processed,
                   files_updated, ret, diag, checked, updated, summary>>

\* Mutant of Start: the is_dir() check of lines 81-83 is missing.
Start_Unchecked ==
    /\ pc = "start"
    /\ files_processed' = 0
    /\ files_updated' = 0
    /\ todo' = rglob
    /\ pc' = "loop"
    /\ UNCHANGED <<tree, config, fs, fs0, written, run, ret, diag, checked,
                   updated, rootError, summary>>

\* Lines 80-90: the root is a directory; the counters start at 0.
Start ==
    /\ pc = "start"
    /\ rootKind = "dir"
    /\ files_processed' = 0
    /\ files_updated' = 0
    /\ todo' = rglob
    /\ pc' = "loop"
    /\ UNCHANGED <<tree, config, fs, fs0, written, run, ret, diag, checked,
                   updated, rootError, summary>>

\* Lines 90-91: the next item is no regular file.
LoopSkip ==
    /\ pc = "loop"
    /\ todo # <<>>
    /\ ~is_file(Head(todo))
    /\ todo' = Tail(todo)
    /\ UNCHANGED <<tree, config, fs, fs0, written, run, pc, files_processed,
                   files_updated, ret, diag, checked, updated, rootError,
                   summary>>

\* Lines 90-93: the next item is a regular file.
LoopFile ==
    /\ pc = "loop"
    /\ todo # <<>>
    /\ is_file(Head(todo))
    /\ files_processed' = files_processed + 1
    /\ checked' = Append(checked, Head(todo))
    /\ diag' = <<>>
    /\ pc' = "update"
    /\ UNCHANGED <<tree, config, fs, fs0, written, run, todo, files_updated,
                   ret, updated, rootError, summary>>

\* Lines 97-99: rglob is exhausted.
LoopEnd ==
    /\ pc = "loop"
    /\ todo = <<>>
    /\ summary' = <<files_processed, files_updated>>
    /\ pc' = "done"
    /\ UNCHANGED <<tree, config, fs, fs0, written, run, todo, files_processed,
                   files_updated, ret, diag, checked, updated, rootError>>

\* ---- update_file_content, and lines 94-95 of its caller ---------------------

item_path == Head(todo)

\* Mutant of Count: files_updated is incremented whatever the call returned.
Count_Always(r) == files_updated + 1

\* Lines 94-95: files_updated after a call that returned r.
Count(r) == IF r THEN files_updated + 1 ELSE files_updated

\* The call returns r having printed d; the loop goes on to the next item.
Return(r, d) ==
    /\ ret' = r
    /\ diag' = d
    /\ files_updated' = Count(r)
    /\ updated' = (IF r THEN updated \cup {item_path} ELSE updated)
    /\ todo' = Tail(todo)
    /\ pc' = "loop"
    /\ UNCHANGED <<tree, config, fs0, run, files_processed, checked,
                   rootError, summary>>

\* Mutant of UpdateDecodeError: the skipped file is reported as modified.
UpdateDecodeError_Counted ==
    /\ pc = "update"
    /\ ~Utf8Valid(fs[item_path])
    /\ UNCHANGED <<fs, written>>
    /\ Return(TRUE, <<"Skipping">>)

\* Lines 37, 59-62: the bytes do not decode.
UpdateDecodeError ==
    /\ pc = "update"
    /\ ~Utf8Valid(fs[item_path])
    /\ UNCHANGED <<fs, written>>
    /\ Return(FALSE, <<"Skipping">>)

\* Lines 37, 63-65: opening or reading the file raises OSError.
UpdateReadOSError ==
    /\ pc = "update"
    /\ UNCHANGED <<fs, written>>
    /\ Return(FALSE, <<"ERROR: Could not read">>)

\* Lines 37, 66-68: reading raises another exception.
UpdateReadException ==
    /\ pc = "update"
    /\ UNCHANGED <<fs, written>>
    /\ Return(FALSE, <<"ERROR: unexpected reading">>)

\* Mutant of UpdateNoMatch: the text is written back without the `in` test.
UpdateNoMatch_Writes ==
    /\ pc = "update"
    /\ Utf8Valid(fs[item_path])
    /\ ~Contains(read_text(fs[item_path]), old_str)
    /\ fs' = [fs EXCEPT ![item_path] =
                 write_text(Replace(read_text(fs[item_path]), old_str, new_str))]
    /\ written' = written \cup {item_path}
    /\ Return(TRUE, <<"Updating">>)

\* Lines 37-40, 55-57: old_str does not occur in the text.
UpdateNoMatch ==
    /\ pc = "update"
    /\ Utf8Valid(fs[item_path])
    /\ ~Contains(read_text(fs[item_path]), old_str)
    /\ UNCHANGED <<fs, written>>
    /\ Return(FALSE, <<>>)

\* Line 43: the text to write back.
new_content == Replace(read_text(fs[item_path]), old_str, new_str)

\* Lines 37-48: old_str occurs; the new text is written.
UpdateWrite ==
    /\ pc = "update"
    /\ Utf8Valid(fs[item_path])
    /\ Contains(read_text(fs[item_path]), old_str)
    /\ fs' = [fs EXCEPT ![item_path] = write_text(new_content)]
    /\ written' = written \cup {item_path}
    /\ Return(TRUE, <<"Updating">>)

\* What a failed write_text leaves: the file as it was when open() failed,
\* else a proper prefix of the new bytes (open(mode='w') truncated the file).
FailedWrite(i, bytes) ==
    \/ /\ fs' = fs
       /\ written' = written
    \/ \E k \in 0..(Len(bytes) - 1) :
         /\ fs' = [fs EXCEPT ![i] = SubSeq(bytes, 1, k)]
         /\ written' = written \cup {i}

\* Lines 37-47, 49-51: old_str occurs; writing raises OSError.
UpdateWriteOSError ==
    /\ pc = "update"
    /\ Utf8Valid(fs[item_path])
    /\ Contains(read_text(fs[item_path]), old_str)
    /\ FailedWrite(item_path, write_text(new_content))
    /\ Return(FALSE, <<"Updating", "ERROR: Could not write">>)

\* Mutant of UpdateWriteException: no handler; the exception leaves the loop.
UpdateWriteException_Propagates ==
    /\ pc = "update"
    /\ Utf8Valid(fs[item_path])
    /\ Contains(read_text(fs[item_path]), old_str)
    /\ FailedWrite(item_path, write_text(new_content))
    /\ pc' = "crashed"
    /\ diag' = <<"Updating">>
    /\ UNCHANGED <<tree, config, fs0, run, todo, files_processed,
                   files_updated, ret, checked, updated, rootError, summary>>

\* Lines 37-47, 52-54: old_str occurs; writing raises another exception.
UpdateWriteException ==
    /\ pc = "update"
    /\ Utf8Valid(fs[item_path])
    /\ Contains(read_text(fs[item_path]), old_str)
    /\ FailedWrite(item_path, write_text(new_content))
    /\ Return(FALSE, <<"Updating", "ERROR: unexpected writing">>)

\* Lines 103-104: the script is run again on the same tree.
Rerun ==
    /\ pc \in {"done", "aborted"}
    /\ run = "first"
    /\ run' = "second"
    /\ pc' = "start"
    /\ fs0' = fs
    /\ written' = {}
    /\ todo' = <<>>
    /\ files_processed' = None
    /\ files_updated' = None
    /\ ret' = FALSE
    /\ diag' = <<>>
    /\ checked' = <<>>
    /\ updated' = {}
    /\ rootError' = FALSE
    /\ summary' = None
    /\ UNCHANGED <<tree, config, fs>>

Next ==
    \/ StartInvalid
    \/ Start
    \/ LoopSkip
    \/ LoopFile
    \/ LoopEnd
    \/ UpdateDecodeError
    \/ UpdateReadOSError
    \/ UpdateReadException
    \/ UpdateNoMatch
    \/ UpdateWrite
    \/ UpdateWriteOSError
    \/ UpdateWriteException

NextTwice == Next \/ Rerun

\* One run of the script over a tree.
Spec == Init /\ [][Next]_vars

\* Two runs in succession over one file.
SpecTwice == InitText /\ [][NextTwice]_vars

\* ---- vocabulary of the properties -------------------------------------------

Range(s) == {s[j] : j \in 1..Len(s)}
NoDuplicates(s) == \A j, k \in 1..Len(s) : j # k => s[j] # s[k]

\* The counters of lines 86-87 exist.
Created == pc \in {"loop", "update", "done"}

\* A call of update_file_content has returned in this run: ret and diag are
\* those of the file checked last.
Returned == pc \in {"loop", "done"} /\ checked # <<>>
LastChecked == checked[Len(checked)]

ErrorLines ==
    {"Skipping", "ERROR: Could not read", "ERROR: unexpected reading",
     "ERROR: Could not write", "ERROR: unexpected writing"}

\* The call that returned last reported a decode, read or write failure.
Failed == Returned /\ \E j \in 1..Len(diag) : diag[j] \in ErrorLines

\* The file decoded when the run began, and its text held old_str.
Matched0(i) == Utf8Valid(fs0[i]) /\ Contains(read_text(fs0[i]), old_str)

\* Files the loop has not reached are still to be yielded.
RestPending == (Files \ Range(checked)) \subseteq Range(todo)

\* The occurrences of old in s that a leftmost-first scan replaces: they
\* match, do not overlap, and every other match overlaps an earlier one.
Occurs(s, old, p) ==
    p + Len(old) - 1 <= Len(s) /\ SubSeq(s, p, p + Len(old) - 1) = old
Scanned(s, old) ==
    CHOOSE P \in SUBSET (1..Len(s)) :
        /\ \A p \in P : Occurs(s, old, p)
        /\ \A p, q \in P : p < q => p + Len(old) <= q
        /\ \A q \in (1..Len(s)) \ P :
               Occurs(s, old, q) => \E p \in P : p < q /\ q < p + Len(old)

\* s with the scanned occurrences replaced by new, the rest left as it is.
RECURSIVE SubstitutedFrom(_, _, _, _)
SubstitutedFrom(s, old, new, j) ==
    IF j > Len(s) THEN <<>>
    ELSE (IF j \in Scanned(s, old) THEN new
          ELSE IF \E p \in Scanned(s, old) : p < j /\ j < p + Len(old)
               THEN <<>>
               ELSE <<s[j]>>) \o SubstitutedFrom(s, old, new, j + 1)
Substituted(s, old, new) == SubstitutedFrom(s, old, new, 1)

\* ---- C1 ---------------------------------------------------------------------

\* C1: when a run has finished, every file whose content decoded and held
\* old_str (old_str not empty) and whose write succeeded holds its content of
\* before the run with every non-overlapping occurrence of old_str, scanned
\* leftmost first, replaced by new_str and every other byte unchanged.
C1_ReplacedExactly ==
    pc = "done" =>
        \A i \in Files :
            (old_str # <<>> /\ Utf8Valid(fs0[i]) /\ Contains(fs0[i], old_str)
             /\ i \in updated)
            => fs[i] = Substituted(fs0[i], old_str, new_str)

\* ---- C2 ---------------------------------------------------------------------

\* What a run without read or write failure leaves of a file holding b.
AfterCleanRun(b) ==
    IF Utf8Valid(b) /\ Contains(read_text(b), old_str)
    THEN write_text(Replace(read_text(b), old_str, new_str))
    ELSE b

\* The first run made every change it found to make.
FirstRunClean == \A i \in Files : fs0[i] = AfterCleanRun(fsInit[i])

\* The second run has written no file and counted none as updated.
SecondRunIdle ==
    /\ written = {}
    /\ updated = {}
    /\ fs = fs0
    /\ pc = "done" => summary[2] = 0

SharesNoCharacter(s, t) ==
    \A j \in 1..Len(s) : \A k \in 1..Len(t) : s[j] # t[k]

C3_NoMatchNoWrite ==
    \A i \in Files :
        (Utf8Valid(fs0[i]) /\ ~Contains(read_text(fs0[i]), old_str))
        => /\ fs[i] = fs0[i]
           /\ i \notin written
           /\ i \notin updated
           /\ (Returned /\ LastChecked = i) => ret = FALSE

C3_Witness ==
    /\ pc = "done"
    /\ \E i \in Range(checked) :
         /\ Utf8Valid(fs0[i]) /\ ~Contains(read_text(fs0[i]), old_str)
         /\ Len(fs0[i]) >= 2
         /\ \E j \in 1..Len(fs0[i]) : fs0[i][j] = old_str[1]

\* ---- C4 ---------------------------------------------------------------------

\* C4: a file that does not decode keeps its bytes, is counted as checked
\* and not as updated, and the files after it are still processed.
C4_UndecodableSkipped ==
    \A i \in Files :
        ~Utf8Valid(fs0[i])
        => /\ fs[i] = fs0[i]
           /\ i \notin written
           /\ i \notin updated
           /\ (Returned /\ LastChecked = i)
                => /\ ret = FALSE
                   /\ files_processed = Len(checked)
                   /\ RestPending
           /\ pc = "done" => (i \in Range(checked) /\ Range(checked) = Files)

C4_Witness ==
    /\ pc = "loop" /\ Returned
    /\ old_str # <<>>
    /\ ~Utf8Valid(fs0[LastChecked])
    /\ diag = <<"Skipping">>
    /\ \E j \in Range(todo) : is_file(j)

\* ---- C5 ---------------------------------------------------------------------

\* C5: when the root is no directory the run reports the error and returns:
\* no counter exists, nothing is listed, read or written, no summary is
\* printed.
C5_InvalidRootAborts ==
    rootKind # "dir"
    => /\ pc \in {"start", "aborted"}
       /\ pc = "aborted" => rootError
       /\ files_processed = None /\ files_updated = None /\ summary = None
       /\ todo = <<>> /\ checked = <<>>
       /\ written = {} /\ fs = fs0

C5_Witness == pc = "aborted" /\ rootError /\ rootKind = "file"

\* ---- C6 ---------------------------------------------------------------------

\* C6: a failure on one file does not end the traversal: the run can always
\* take its next step until the summary, a file whose read or write failed
\* is counted as checked and not as updated, the files not yet visited are
\* still to come, and at the summary every file has been visited.
C6_ErrorsDoNotAbort ==
    /\ pc \notin {"done", "aborted"} => ENABLED Next
    /\ Failed => /\ ret = FALSE
                 /\ LastChecked \notin updated
                 /\ files_processed = Len(checked)
                 /\ RestPending
    /\ pc = "done" => /\ Range(checked) = Files
                      /\ summary = <<files_processed, files_updated>>

C6_Witness ==
    /\ pc = "done"
    /\ old_str # <<>>
    /\ Len(checked) >= 2
    /\ checked[1] \in written \ updated
    /\ checked[2] \in updated

\* ---- C7 ---------------------------------------------------------------------

C7_Step ==
    /\ Created' => files_processed' >= files_updated'
    /\ Created =>
         /\ files_processed' >= files_processed
         /\ files_updated' >= files_updated
         /\ files_updated' # files_updated
              => /\ files_updated' = files_updated + 1
                 /\ pc = "update"
                 /\ ret'
                 /\ files_processed' = files_processed
                 /\ LastChecked = item_path

\* C7: files_checked >= files_updated throughout a run; neither counter
\* decreases; files_updated grows by one, and only in the step in which
\* update_file_content returns True for the file that was counted as checked
\* last.
C7_Counters == [][C7_Step]_vars

C7_Witness ==
    /\ pc = "done"
    /\ old_str # <<>>
    /\ files_updated >= 1
    /\ files_processed > files_updated

\* ---- C8 ---------------------------------------------------------------------

C9_WriteOnlyIfChanged ==
    \A i \in Files :
        (old_str # <<>> /\ Utf8Valid(fs0[i])
         /\ Replace(read_text(fs0[i]), old_str, new_str) = read_text(fs0[i]))
        => i \notin written /\ i \notin updated

\* ---- C10 --------------------------------------------------------------------

\* C10: with an empty old_str no file is modified and none is counted as
\* updated.
C10_EmptyOldRejected ==
    old_str = <<>> => (fs = fs0 /\ updated = {})

=============================================================================
